---- MODULE Spec2Model ----
(***************************************************************************)
(* A model of server.py: the ServiceNow client (the outcome normalizer and *)
(* the three table operations), the four table tools, the two framework    *)
(* tools, and the start-up / shut-down block of the process.               *)
(*                                                                         *)
(* Text is a sequence of tokens (a token is one character, or one fixed    *)
(* piece of text such as "<html").  A Python dict is a function from its   *)
(* keys; a record's DOMAIN is the set of keys the dict holds.              *)
(***************************************************************************)
EXTENDS Integers, Sequences, FiniteSets, TLC

VARIABLES pc, clients, clientOpen, closeCount, exitPath, last, calls, fsOps

vars == <<pc, clients, clientOpen, closeCount, exitPath, last, calls, fsOps>>

\* ------------------------------------------------------------------------
\* Bounds of the model.
\* ------------------------------------------------------------------------
\* Blank tokens put before and after a text.
MaxPad == 1
\* The limits passed to query_records lie within MaxDelta of the cap.
MaxDelta == 2
\* The domain and framework names are the texts of at most MaxNameLen characters.
MaxNameLen == 2

\* ------------------------------------------------------------------------
\* Program constants.
\* ------------------------------------------------------------------------
LimitCap == 100
SingleLimit == 1
SysIdLen == 32
PreviewLen == 500

\* ------------------------------------------------------------------------
\* Text helpers.
\* ------------------------------------------------------------------------
Blank == {" ", "\n"}

Rep(c, n) == [i \in 1..n |-> c]

Take(s, n) == IF Len(s) <= n THEN s ELSE SubSeq(s, 1, n)

\* tok in s
Contains(s, tok) == \E i \in 1..Len(s) : s[i] = tok

\* str.strip()
RECURSIVE LStrip(_)
LStrip(s) == IF s # <<>> /\ Head(s) \in Blank THEN LStrip(Tail(s)) ELSE s

RECURSIVE RStrip(_)
RStrip(s) ==
    IF s # <<>> /\ s[Len(s)] \in Blank THEN RStrip(SubSeq(s, 1, Len(s) - 1)) ELSE s

Strip(s) == RStrip(LStrip(s))

\* str.lower() and str.upper(), on the tokens the model uses
LowerTok(c) ==
    CASE c = "<HTML" -> "<html"
      [] c = "Instance Hibernating" -> "instance hibernating"
      [] c = "A" -> "a"
      [] c = "Z" -> "z"
      [] OTHER -> c

Lower(s) == [i \in 1..Len(s) |-> LowerTok(s[i])]

UpperTok(c) ==
    CASE c = "a" -> "A"
      [] c = "z" -> "Z"
      [] c = "m" -> "M"
      [] c = "d" -> "D"
      [] OTHER -> c

Upper(s) == [i \in 1..Len(s) |-> UpperTok(s[i])]

\* ------------------------------------------------------------------------
\* json.loads on a text.  Tokens: "{" "}" "[" "]" "," the keys "r:" (the
\* member name "result" with its colon) and "k:" (another member name), the
\* scalars "1" and "null", and blanks.  A value is [t |-> "num"],
\* [t |-> "null"], [t |-> "list", items |-> <<...>>] or
\* [t |-> "dict", fields |-> [key |-> value]].
\* ------------------------------------------------------------------------
ParseFail == [ok |-> FALSE]

ParseOk(v, n) == [ok |-> TRUE, val |-> v, next |-> n]

RECURSIVE SkipWs(_, _)
SkipWs(s, i) == IF i <= Len(s) /\ s[i] \in Blank THEN SkipWs(s, i + 1) ELSE i

KeyOf(tok) == IF tok = "r:" THEN "result" ELSE "other"

\* dict[key] = v : a later member with the same name replaces the earlier
PutKey(f, key, v) ==
    [k \in (DOMAIN f) \cup {key} |-> IF k = key THEN v ELSE f[k]]

EmptyFields == [k \in {} |-> 0]

RECURSIVE ParseValue(_, _), ParseArrayRest(_, _, _), ParseObjectRest(_, _, _)
ParseValue(s, i0) ==
    LET i == SkipWs(s, i0) IN
    IF i > Len(s) THEN ParseFail
    ELSE CASE s[i] = "1" -> ParseOk([t |-> "num"], i + 1)
           [] s[i] = "null" -> ParseOk([t |-> "null"], i + 1)
           [] s[i] = "[" ->
                LET j == SkipWs(s, i + 1) IN
                IF j <= Len(s) /\ s[j] = "]"
                THEN ParseOk([t |-> "list", items |-> <<>>], j + 1)
                ELSE ParseArrayRest(s, j, <<>>)
           [] s[i] = "{" ->
                LET j == SkipWs(s, i + 1) IN
                IF j <= Len(s) /\ s[j] = "}"
                THEN ParseOk([t |-> "dict", fields |-> EmptyFields], j + 1)
                ELSE ParseObjectRest(s, j, EmptyFields)
           [] OTHER -> ParseFail

ParseArrayRest(s, i, acc) ==
    LET v == ParseValue(s, i) IN
    IF ~v.ok THEN ParseFail
    ELSE LET j == SkipWs(s, v.next) IN
         IF j > Len(s) THEN ParseFail
         ELSE IF s[j] = "," THEN ParseArrayRest(s, j + 1, Append(acc, v.val))
         ELSE IF s[j] = "]"
              THEN ParseOk([t |-> "list", items |-> Append(acc, v.val)], j + 1)
         ELSE ParseFail

ParseObjectRest(s, i0, acc) ==
    LET i == SkipWs(s, i0) IN
    IF i > Len(s) \/ s[i] \notin {"r:", "k:"} THEN ParseFail
    ELSE LET v == ParseValue(s, i + 1) IN
         IF ~v.ok THEN ParseFail
         ELSE LET j == SkipWs(s, v.next)
                  f == PutKey(acc, KeyOf(s[i]), v.val)
              IN
              IF j > Len(s) THEN ParseFail
              ELSE IF s[j] = "," THEN ParseObjectRest(s, j + 1, f)
              ELSE IF s[j] = "}"
                   THEN ParseOk([t |-> "dict", fields |-> f], j + 1)
              ELSE ParseFail

\* json.loads: one value, blanks around it, nothing after it
JsonLoads(s) ==
    LET v == ParseValue(s, 1) IN
    IF ~v.ok THEN ParseFail
    ELSE IF SkipWs(s, v.next) = Len(s) + 1 THEN v ELSE ParseFail

\* ------------------------------------------------------------------------
\* What the remote side can do with one HTTP call: raise (a timeout, another
\* httpx.RequestError, any other exception) or answer with a status, a
\* content-type header (<<>> : no such header) and a body.
\* ------------------------------------------------------------------------
Pad(n) == Rep(" ", n)

Padded(S) == {Pad(n) \o b \o Pad(m) : b \in S, n \in 0..MaxPad, m \in 0..MaxPad}

\* well-formed JSON documents
JsonDocs ==
    { <<"{", "r:", "[", "]", "}">>,
      <<"{", "r:", "[", "{", "}", "]", "}">>,
      <<"{", "r:", "[", "{", "}", ",", "{", "k:", "1", "}", "]", "}">>,
      <<"{", "r:", "{", "k:", "1", "}", "}">>,
      <<"{", "r:", "null", "}">>,
      <<"{", "k:", "1", ",", "r:", "1", "}">>,
      <<"{", "k:", "1", "}">>,
      <<"{", "}">>,
      <<"[", "1", "]">>,
      <<"[", "]">>,
      <<"1">> }

\* texts that are no JSON document
BadDocs ==
    { <<>>, <<"\n">>, <<"{", "r:">>, <<"[", "1", ",", "]">>, <<"{", "}", "x">>,
      <<"x">>, <<"<html">>, <<"x", "<HTML">>, <<"Instance Hibernating">> }

PadBase == { <<>>, <<"{", "r:", "[", "]", "}">>, <<"[", "1", "]">>, <<"x">> }

Bodies == JsonDocs \cup BadDocs \cup Padded(PadBase)

Statuses == {200, 201, 302, 404, 500}

ContentTypes ==
    { <<>>, <<"application/json">>, <<"application/json", ";charset=UTF-8">>,
      <<"text/html">> }

Transport ==
    { [kind |-> "timeout"], [kind |-> "request_error"], [kind |-> "other_error"] }
    \cup [kind : {"response"}, status : Statuses, ctype : ContentTypes, body : Bodies]

\* ------------------------------------------------------------------------
\* ServiceNowClient._handle_request_errors
\* ------------------------------------------------------------------------
\* response.raise_for_status() raises httpx.HTTPStatusError unless 2xx
IsSuccessStatus(status) == status >= 200 /\ status <= 299

Failure(kind, err) == [success |-> FALSE, error |-> err, error_type |-> kind]

\* "Instance Hibernating" in response.text or "<html" in response.text.lower()
LooksHibernating(body) ==
    Contains(body, "Instance Hibernating") \/ Contains(Lower(body), "<html")

\* data.get('result', data); a parsed value that is no dict has no get
UnwrapResult(v) ==
    IF v.t # "dict"
    THEN Failure("unexpected_error", [msg |-> "Unexpected error", exc |-> "AttributeError"])
    ELSE [success |-> TRUE,
          data |-> IF "result" \in DOMAIN v.fields THEN v.fields["result"] ELSE v]

HandleResponse(t) ==
    IF Strip(t.body) = <<>>
    THEN Failure("empty_response",
                 [msg |-> "ServiceNow returned 200 OK but with an empty response body."])
    ELSE IF ~Contains(t.ctype, "application/json")
    THEN Failure("unexpected_content",
                 [msg |-> "Expected JSON response but got Content-Type",
                  content_type |-> t.ctype,
                  preview |-> Take(t.body, PreviewLen),
                  hint |-> LooksHibernating(t.body)])
    ELSE LET parsed == JsonLoads(t.body) IN
         IF ~parsed.ok
         THEN Failure("json_error",
                      [msg |-> "Invalid JSON response", preview |-> Take(t.body, PreviewLen)])
         ELSE UnwrapResult(parsed.val)

HandleStatusError(t) ==
    [success |-> FALSE,
     error |-> [msg |-> "HTTP error", status |-> t.status, body |-> t.body],
     error_type |-> "http_error",
     status_code |-> t.status]

\* "except httpx.RequestError" put before "except httpx.TimeoutException"
HandleRequestErrorsNoTimeout(t) ==
    CASE t.kind \in {"timeout", "request_error"} ->
            Failure("network_error", [msg |-> "Network error"])
      [] t.kind = "other_error" ->
            Failure("unexpected_error", [msg |-> "Unexpected error", exc |-> "Exception"])
      [] OTHER ->
            IF ~IsSuccessStatus(t.status) THEN HandleStatusError(t) ELSE HandleResponse(t)

HandleRequestErrors(t) ==
    CASE t.kind = "timeout" -> Failure("timeout", [msg |-> "Request timeout"])
      [] t.kind = "request_error" -> Failure("network_error", [msg |-> "Network error"])
      [] t.kind = "other_error" ->
            Failure("unexpected_error", [msg |-> "Unexpected error", exc |-> "Exception"])
      [] OTHER ->
            IF ~IsSuccessStatus(t.status) THEN HandleStatusError(t) ELSE HandleResponse(t)

\* ------------------------------------------------------------------------
\* ServiceNowClient.query_table / insert_record / modify_record.  Each gives
\* the Outcome it returns and the HTTP call it issued.
\* ------------------------------------------------------------------------
\* the payload wrapped without the isinstance test
AsListAlwaysWrap(v) == [t |-> "list", items |-> <<v>>]

\* result["data"] if isinstance(result["data"], list) else [result["data"]]
AsList(v) == IF v.t = "list" THEN v ELSE [t |-> "list", items |-> <<v>>]

\* count set on every Outcome, not only on success
ListOutcomeAlwaysCount(result) ==
    IF result.success
    THEN [success |-> TRUE, data |-> AsList(result.data),
          count |-> Len(AsList(result.data).items)]
    ELSE PutKey(result, "count", 0)

ListOutcome(result) ==
    IF result.success
    THEN [success |-> TRUE, data |-> AsList(result.data),
          count |-> Len(AsList(result.data).items)]
    ELSE result

\* one call of the client: the HTTP call issued, what the normalizer returned
\* for it, and the Outcome the operation returned
ClientCall(call, t, normalized, outcome) ==
    [call |-> call, t |-> t, open |-> clientOpen, normalized |-> normalized,
     outcome |-> outcome]

query_table(table, params, t) ==
    ClientCall([op |-> "list", method |-> "GET", table |-> table, params |-> params],
               t, HandleRequestErrors(t), ListOutcome(HandleRequestErrors(t)))

insert_record(table, payload, t) ==
    ClientCall([op |-> "insert", method |-> "POST", table |-> table, payload |-> payload,
                input_display_value |-> TRUE],
               t, HandleRequestErrors(t), HandleRequestErrors(t))

modify_record(table, sys_id, payload, t) ==
    ClientCall([op |-> "modify", method |-> "PATCH", table |-> table, sys_id |-> sys_id,
                payload |-> payload, input_display_value |-> TRUE],
               t, HandleRequestErrors(t), HandleRequestErrors(t))

\* ------------------------------------------------------------------------
\* The table tools.  Each gives what the tool returns and the HTTP calls it
\* issued.  json.dumps turns a dict into the text of one JSON object; the
\* model keeps the dict and tags it as serialised.
\* ------------------------------------------------------------------------
JsonDumps(d) == [kind |-> "returned", json |-> d]

Min(a, b) == IF a <= b THEN a ELSE b

\* the optional entries of params: "if query:", "if fields:"
WithOptional(params, key, value) ==
    IF value = "" THEN params ELSE PutKey(params, key, value)

\* the limit passed on as given
QueryParamsUncapped(query, limit, fields) ==
    WithOptional(
        WithOptional([sysparm_limit |-> limit, sysparm_display_value |-> "true"],
                     "sysparm_query", query),
        "sysparm_fields", fields)

QueryParams(query, limit, fields) ==
    WithOptional(
        WithOptional([sysparm_limit |-> Min(limit, LimitCap), sysparm_display_value |-> "true"],
                     "sysparm_query", query),
        "sysparm_fields", fields)

query_records(table_name, query, limit, fields, t) ==
    LET r == query_table(table_name, QueryParams(query, limit, fields), t) IN
    [ret |-> JsonDumps(r.outcome), calls |-> <<r>>]

SingleParams(record_number, query_field, fields) ==
    WithOptional([sysparm_query |-> <<query_field, "=", record_number>>,
                  sysparm_limit |-> SingleLimit, sysparm_display_value |-> "true"],
                 "sysparm_fields", fields)

\* result["success"] and result.get("count", 0) == 0
IsEmptyMatch(result) ==
    result.success /\ (IF "count" \in DOMAIN result THEN result.count ELSE 0) = 0

SingleResult(result, record_number, table_name) ==
    IF IsEmptyMatch(result)
    THEN [success |-> FALSE,
          error |-> [msg |-> "Record not found", record |-> record_number,
                     table |-> table_name]]
    ELSE result

get_single_record(table_name, record_number, query_field, fields, t) ==
    LET r == query_table(table_name, SingleParams(record_number, query_field, fields), t) IN
    [ret |-> JsonDumps(SingleResult(r.outcome, record_number, table_name)),
     calls |-> <<r>>]

InvalidPayload ==
    [success |-> FALSE, error |-> [msg |-> "Invalid JSON string provided for payload."]]

create_record(table_name, payload_json, t) ==
    LET payload == JsonLoads(payload_json) IN
    IF ~payload.ok
    THEN [ret |-> JsonDumps(InvalidPayload), calls |-> <<>>]
    ELSE LET r == insert_record(table_name, payload.val, t) IN
         [ret |-> JsonDumps(r.outcome), calls |-> <<r>>]

HexLower == {"0", "9", "a", "f"}

\* re.fullmatch(r'[0-9a-f]{32}', sys_id)
IsSysId(sys_id) ==
    Len(sys_id) = SysIdLen /\ \A i \in 1..Len(sys_id) : sys_id[i] \in HexLower

InvalidSysId(sys_id) ==
    [success |-> FALSE, error |-> [msg |-> "Invalid sys_id format", sys_id |-> sys_id]]

update_record(table_name, sys_id, payload_json, t) ==
    IF ~IsSysId(sys_id)
    THEN [ret |-> JsonDumps(InvalidSysId(sys_id)), calls |-> <<>>]
    ELSE LET payload == JsonLoads(payload_json) IN
         IF ~payload.ok
         THEN [ret |-> JsonDumps(InvalidPayload), calls |-> <<>>]
         ELSE LET r == modify_record(table_name, sys_id, payload.val, t) IN
              [ret |-> JsonDumps(r.outcome), calls |-> <<r>>]

\* ------------------------------------------------------------------------
\* Arguments of the table tools.
\* ------------------------------------------------------------------------
Tables == {"incident", "cmdb_ci"}

Queries == {"", "active=true"}

FieldLists == {"", "number"}

Limits == ((LimitCap - MaxDelta)..(LimitCap + MaxDelta)) \cup {-1, 0, 10, 1000}

RecordNumbers == {"INC0010001"}

QueryFields == {"number", "sys_id"}

Payloads ==
    { <<"{", "k:", "1", "}">>, <<" ", "{", "}", "\n">>, <<"[", "1", "]">>, <<"1">>,
      <<>>, <<" ">>, <<"{", "k:">>, <<"{", "k:", "1", "}", "}">>, <<"x">> }

GoodId == Rep("a", SysIdLen)

\* s with position i replaced by c
Replace(s, i, c) == [j \in 1..Len(s) |-> IF j = i THEN c ELSE s[j]]

SysIds ==
    { GoodId, Replace(Rep("0", SysIdLen), SysIdLen, "f"),
      <<>>, Rep("a", SysIdLen - 1), Rep("a", SysIdLen + 1), GoodId \o <<"\n">>,
      Replace(GoodId, 1, "A"), Replace(GoodId, SysIdLen, "g"),
      Replace(GoodId, 2, "-"), Rep(" ", SysIdLen) }

\* ------------------------------------------------------------------------
\* The document store under BASE_DIR/docs, as the file system shows it to
\* one tool invocation.  root: "missing", "file", "unreadable" (a directory
\* without permissions) or "dir"; entries maps a name under docs/ to
\* [kind, files]; files maps a file name to the text it holds (TextDocs), or
\* to Undecodable (bytes that are no UTF-8), Unreadable (no permission) or
\* IsDir (a directory with that name).
\* ------------------------------------------------------------------------
Undecodable == [bytes |-> "no utf-8"]

Unreadable == [mode |-> "no permission"]

IsDir == [entry |-> "directory"]

MdExt == <<".", "m", "d">>

StandardsName == <<"_", "s", "t", "a", "n", "d", "a", "r", "d", "s">> \o MdExt

NoFiles == [f \in {} |-> 0]

NoEntries == [d \in {} |-> 0]

DomainDir(files) == [kind |-> "dir", files |-> files]

FwFile == <<"a">> \o MdExt

FwText == [text |-> "framework instructions"]

StdText == [text |-> "domain standards"]

\* one framework document and one more entry of the domain directory
WithStandards(fw, std) ==
    DomainDir([f \in {FwFile, StandardsName} |-> IF f = FwFile THEN fw ELSE std])

Stores ==
    { [root |-> "missing", entries |-> NoEntries],
      [root |-> "file", entries |-> NoEntries],
      [root |-> "unreadable", entries |-> NoEntries],
      [root |-> "dir", entries |-> NoEntries],
      [root |-> "dir", entries |-> [d \in {<<"a">>} |-> WithStandards(FwText, StdText)]],
      [root |-> "dir", entries |-> [d \in {<<"a">>} |-> WithStandards(FwText, Undecodable)]],
      [root |-> "dir", entries |-> [d \in {<<"a">>} |-> WithStandards(FwText, Unreadable)]],
      [root |-> "dir", entries |-> [d \in {<<"a">>} |-> WithStandards(FwText, IsDir)]],
      [root |-> "dir", entries |-> [d \in {<<"a">>} |-> WithStandards(Undecodable, StdText)]],
      [root |-> "dir", entries |-> [d \in {<<"a">>} |-> WithStandards(Unreadable, StdText)]],
      [root |-> "dir", entries |-> [d \in {<<"a">>} |-> WithStandards(IsDir, StdText)]],
      [root |-> "dir",
       entries |-> [d \in {<<"a">>} |-> DomainDir([f \in {FwFile} |-> FwText])]],
      [root |-> "dir",
       entries |-> [d \in {<<"a">>, <<"-">>, <<"z">>} |->
                      IF d = <<"a">>
                      THEN DomainDir([f \in {FwFile, <<"-">> \o MdExt, <<"a">>, MdExt} |->
                                        FwText])
                      ELSE IF d = <<"-">> THEN DomainDir(NoFiles)
                      ELSE [kind |-> "file", files |-> NoFiles]]],
      [root |-> "dir",
       entries |-> [d \in {<<"a">>} |-> [kind |-> "unreadable", files |-> NoFiles]]],
      [root |-> "dir",
       entries |-> [d \in {<<"a", "\n">>} |-> WithStandards(FwText, StdText)]] }

\* open(path, "r", encoding="utf-8") and f.read() on docs/<domain>/<file>:
\* the text, or the exception raised
Raised(exc) == [ok |-> FALSE, exc |-> exc]

OpenRead(store, domain, file) ==
    CASE store.root = "missing" -> Raised("FileNotFoundError")
      [] store.root = "file" -> Raised("NotADirectoryError")
      [] store.root = "unreadable" -> Raised("PermissionError")
      [] OTHER ->
            IF domain \notin DOMAIN store.entries THEN Raised("FileNotFoundError")
            ELSE LET d == store.entries[domain] IN
                 CASE d.kind = "file" -> Raised("NotADirectoryError")
                   [] d.kind = "unreadable" -> Raised("PermissionError")
                   [] OTHER ->
                         IF file \notin DOMAIN d.files THEN Raised("FileNotFoundError")
                         ELSE CASE d.files[file] = IsDir -> Raised("IsADirectoryError")
                                [] d.files[file] = Unreadable -> Raised("PermissionError")
                                [] d.files[file] = Undecodable -> Raised("UnicodeDecodeError")
                                [] OTHER -> [ok |-> TRUE, text |-> d.files[file]]

\* os.path.exists on docs/<domain>/<file>: an entry of any kind that can be reached
PathExists(store, domain, file) ==
    /\ store.root = "dir"
    /\ domain \in DOMAIN store.entries
    /\ store.entries[domain].kind = "dir"
    /\ file \in DOMAIN store.entries[domain].files

\* ------------------------------------------------------------------------
\* read_framework_instructions
\* ------------------------------------------------------------------------
SafeChars == {"a", "z", "A", "Z", "0", "9", "_", "-", "m", "d", "s", "t", "n", "r"}

\* re.compile(r'^[a-zA-Z0-9_-]+$').match(name): one or more safe characters,
\* then the end of the text or a newline that ends the text
SafeNameMatch(name) ==
    \E n \in 1..Len(name) :
        /\ \A i \in 1..n : name[i] \in SafeChars
        /\ \/ n = Len(name)
           \/ n = Len(name) - 1 /\ name[Len(name)] = "\n"

Returned(v) == [kind |-> "returned", text |-> v]

Escaped(exc) == [kind |-> "raised", exc |-> exc]

\* step 2: the standards block, or "" kept when the file is absent or its read fails
StandardsBlock(store, domain) ==
    IF ~PathExists(store, domain, StandardsName) THEN <<>>
    ELSE LET f == OpenRead(store, domain, StandardsName) IN
         IF f.ok
         THEN << [part |-> "standards", label |-> Upper(domain), text |-> f.text] >>
         ELSE <<>>

StandardsOps(store, domain) ==
    IF PathExists(store, domain, StandardsName)
    THEN << [fs |-> "exists", file |-> StandardsName], [fs |-> "open", file |-> StandardsName] >>
    ELSE << [fs |-> "exists", file |-> StandardsName] >>

\* step 3: the next-steps block, "if target:"
NextSteps(target) ==
    IF target # ""
    THEN [part |-> "next_steps", variant |-> "fetch the target record", target |-> target]
    ELSE [part |-> "next_steps", variant |-> "interview the user"]

Directive(store, domain, framework, target, instructions) ==
    << [part |-> "header", framework |-> framework, domain |-> domain] >>
    \o StandardsBlock(store, domain)
    \o << [part |-> "instructions", text |-> instructions], NextSteps(target) >>

\* step 1 onwards: the names have passed the check
LoadFramework(store, domain, framework, target) ==
    LET f == OpenRead(store, domain, framework \o MdExt)
        opened == << [fs |-> "open", file |-> framework \o MdExt] >>
    IN
    IF f.ok
    THEN [ret |-> Returned([directive |-> Directive(store, domain, framework, target, f.text)]),
          fsOps |-> opened \o StandardsOps(store, domain)]
    ELSE IF f.exc = "FileNotFoundError"
    THEN [ret |-> Returned([error |-> "No framework found", domain |-> domain,
                            framework |-> framework]),
          fsOps |-> opened]
    ELSE [ret |-> Escaped(f.exc), fsOps |-> opened]

read_framework_instructions(store, domain, framework, target) ==
    IF ~SafeNameMatch(domain)
    THEN [ret |-> Returned([error |-> "Invalid domain name", name |-> domain]), fsOps |-> <<>>]
    ELSE IF ~SafeNameMatch(framework)
    THEN [ret |-> Returned([error |-> "Invalid framework name", name |-> framework]),
          fsOps |-> <<>>]
    ELSE LoadFramework(store, domain, framework, target)

\* ------------------------------------------------------------------------
\* list_frameworks
\* ------------------------------------------------------------------------
\* the order of the characters, as sorted() compares texts
CharRank(c) ==
    CASE c = "\n" -> 10
      [] c = " " -> 32
      [] c = "-" -> 45
      [] c = "." -> 46
      [] c = "/" -> 47
      [] c = "_" -> 95
      [] c = "a" -> 97
      [] c = "d" -> 100
      [] c = "m" -> 109
      [] c = "z" -> 122
      [] OTHER -> 200

RECURSIVE TextLess(_, _)
TextLess(a, b) ==
    IF a = <<>> THEN b # <<>>
    ELSE IF b = <<>> THEN FALSE
    ELSE IF Head(a) = Head(b) THEN TextLess(Tail(a), Tail(b))
    ELSE CharRank(Head(a)) < CharRank(Head(b))

\* sorted(S)
RECURSIVE Sorted(_)
Sorted(S) ==
    IF S = {} THEN <<>>
    ELSE LET m == CHOOSE x \in S : \A y \in S \ {x} : TextLess(x, y) IN
         <<m>> \o Sorted(S \ {m})

EndsWithMd(f) == Len(f) >= 3 /\ SubSeq(f, Len(f) - 2, Len(f)) = MdExt

\* f[:-3] for f in os.listdir(domain_path)
\*   if f.endswith(".md") and f != "_standards.md" and os.path.isfile(...)
FrameworksOf(d) ==
    Sorted({ SubSeq(f, 1, Len(f) - 3) :
               f \in { g \in DOMAIN d.files :
                         /\ EndsWithMd(g)
                         /\ g # StandardsName
                         /\ d.files[g] # IsDir } })

\* the domains that are directories: os.path.isdir(domain_path)
DomainDirs(store) == { d \in DOMAIN store.entries : store.entries[d].kind # "file" }

\* the domains kept in the result: "if frameworks:"
ListedDomains(store) ==
    { d \in DomainDirs(store) : FrameworksOf(store.entries[d]) # <<>> }

list_frameworks(store) ==
    IF store.root \notin {"dir", "unreadable"}
    THEN [kind |-> "returned",
          json |-> [success |-> FALSE, error |-> [msg |-> "docs/ directory not found."]]]
    ELSE IF store.root = "unreadable" THEN Escaped("PermissionError")
    ELSE IF \E d \in DomainDirs(store) : store.entries[d].kind = "unreadable"
    THEN Escaped("PermissionError")
    ELSE [kind |-> "returned",
          json |-> [success |-> TRUE,
                    frameworks |-> [d \in ListedDomains(store) |->
                                      FrameworksOf(store.entries[d])]]]

\* ------------------------------------------------------------------------
\* Arguments of the framework tools.
\* ------------------------------------------------------------------------
NameChars == {"a", "-", "/", "\n"}

RECURSIVE Texts(_, _)
Texts(S, n) ==
    IF n = 0 THEN {<<>>}
    ELSE LET shorter == Texts(S, n - 1) IN
         shorter \cup { Append(s, c) : s \in shorter, c \in S }

Names == Texts(NameChars, MaxNameLen)

Targets == {"", "CHG0030001"}

\* ------------------------------------------------------------------------
\* The process: the module body has built sn_client; the __main__ block
\* runs the serving loop, and its finally clause closes the client.
\* ------------------------------------------------------------------------
ExitPaths == {"return", "KeyboardInterrupt", "Exception", "BaseException"}

\* the close placed after mcp.run() in the try body instead of in finally
ClosesOnReturnOnly(how) == how = "return"

\* try: mcp.run() / except ... / finally: asyncio.run(sn_client.close())
ClosesOnExit(how) == how \in ExitPaths

Idle == [op |-> "none"]

Init ==
    /\ pc = "main"
    /\ clients = 1
    /\ clientOpen = TRUE
    /\ closeCount = 0
    /\ exitPath = "none"
    /\ last = Idle
    /\ calls = <<>>
    /\ fsOps = <<>>

Lifecycle == <<pc, clients, clientOpen, closeCount, exitPath>>

\* mcp.run() starts serving
MainRun ==
    /\ pc = "main"
    /\ pc' = "serving"
    /\ UNCHANGED <<clients, clientOpen, closeCount, exitPath, last, calls, fsOps>>

\* mcp.run() ends (it returns or raises) and the rest of the block runs
ServeExit ==
    \E how \in ExitPaths :
        /\ pc = "serving"
        /\ pc' = "stopped"
        /\ exitPath' = how
        /\ IF ClosesOnExit(how)
           THEN clientOpen' = FALSE /\ closeCount' = closeCount + 1
           ELSE UNCHANGED <<clientOpen, closeCount>>
        /\ last' = Idle
        /\ calls' = <<>>
        /\ fsOps' = <<>>
        /\ UNCHANGED clients

\* the host hands one request to a tool when no other is being answered
Ready == pc = "serving" /\ last = Idle

\* the host sends the tool's result to the caller
Respond ==
    /\ pc = "serving"
    /\ last # Idle
    /\ last' = Idle
    /\ calls' = <<>>
    /\ fsOps' = <<>>
    /\ UNCHANGED Lifecycle

QueryRecords ==
    /\ Ready
    /\ \E table_name \in Tables, query \in Queries, limit \in Limits,
       fields \in FieldLists, t \in Transport :
        LET r == query_records(table_name, query, limit, fields, t) IN
        /\ last' = [op |-> "query_records",
                    args |-> [table_name |-> table_name, query |-> query,
                              limit |-> limit, fields |-> fields],
                    ret |-> r.ret]
        /\ calls' = r.calls
        /\ fsOps' = <<>>
        /\ UNCHANGED Lifecycle

GetSingleRecord ==
    /\ Ready
    /\ \E table_name \in Tables, record_number \in RecordNumbers,
       query_field \in QueryFields, fields \in FieldLists, t \in Transport :
        LET r == get_single_record(table_name, record_number, query_field, fields, t) IN
        /\ last' = [op |-> "get_single_record",
                    args |-> [table_name |-> table_name, record_number |-> record_number,
                              query_field |-> query_field, fields |-> fields],
                    ret |-> r.ret]
        /\ calls' = r.calls
        /\ fsOps' = <<>>
        /\ UNCHANGED Lifecycle

CreateRecord ==
    /\ Ready
    /\ \E table_name \in Tables, payload_json \in Payloads, t \in Transport :
        LET r == create_record(table_name, payload_json, t) IN
        /\ last' = [op |-> "create_record",
                    args |-> [table_name |-> table_name, payload_json |-> payload_json],
                    ret |-> r.ret]
        /\ calls' = r.calls
        /\ fsOps' = <<>>
        /\ UNCHANGED Lifecycle

UpdateRecord ==
    /\ Ready
    /\ \E table_name \in Tables, sys_id \in SysIds, payload_json \in Payloads,
       t \in Transport :
        LET r == update_record(table_name, sys_id, payload_json, t) IN
        /\ last' = [op |-> "update_record",
                    args |-> [table_name |-> table_name, sys_id |-> sys_id,
                              payload_json |-> payload_json],
                    ret |-> r.ret]
        /\ calls' = r.calls
        /\ fsOps' = <<>>
        /\ UNCHANGED Lifecycle

ListFrameworks ==
    /\ Ready
    /\ \E store \in Stores :
        /\ last' = [op |-> "list_frameworks", store |-> store,
                    ret |-> list_frameworks(store)]
        /\ calls' = <<>>
        /\ fsOps' = <<>>
        /\ UNCHANGED Lifecycle

ReadFrameworkInstructions ==
    /\ Ready
    /\ \E store \in Stores, domain \in Names, framework \in Names, target \in Targets :
        LET r == read_framework_instructions(store, domain, framework, target) IN
        /\ last' = [op |-> "read_framework_instructions", store |-> store,
                    args |-> [domain |-> domain, framework |-> framework,
                              target |-> target],
                    ret |-> r.ret]
        /\ calls' = <<>>
        /\ fsOps' = r.fsOps
        /\ UNCHANGED Lifecycle

Next ==
    \/ MainRun
    \/ ServeExit
    \/ Respond
    \/ QueryRecords
    \/ GetSingleRecord
    \/ CreateRecord
    \/ UpdateRecord
    \/ ListFrameworks
    \/ ReadFrameworkInstructions

Spec == Init /\ [][Next]_vars
\* ------------------------------------------------------------------------
\* The properties.
\* ------------------------------------------------------------------------
Has(d, key) == key \in DOMAIN d

\* the tool returned the text of a JSON object that reports this failure
ReportsFailure(ret, kind) ==
    /\ ret.kind = "returned"
    /\ Has(ret, "json")
    /\ ret.json.success = FALSE
    /\ Has(ret.json, "error")
    /\ Has(ret.json, "error_type")
    /\ ret.json.error_type = kind

NotJson(text) == ~JsonLoads(text).ok

\* C1: create_record, and update_record given a 32-hex sys_id, answer a
\* payload that is no JSON with success=false and
\* error_type=invalid_payload_json, and issue no remote call.
C1_InvalidPayloadRejected ==
    /\ (last.op = "create_record" /\ NotJson(last.args.payload_json))
          => (ReportsFailure(last.ret, "invalid_payload_json") /\ calls = <<>>)
    /\ (/\ last.op = "update_record"
        /\ IsSysId(last.args.sys_id)
        /\ NotJson(last.args.payload_json))
          => (ReportsFailure(last.ret, "invalid_payload_json") /\ calls = <<>>)

\* C2: update_record answers a sys_id that is not 32 lower-case hex
\* characters with error_type=invalid_sys_id_format and issues no remote
\* call, whatever the payload is.
C2_InvalidSysIdRejected ==
    (/\ last.op = "update_record"
     /\ ~(Len(last.args.sys_id) = 32
          /\ \A i \in 1..Len(last.args.sys_id) :
                last.args.sys_id[i] \in {"0", "9", "a", "f"}))
       => (ReportsFailure(last.ret, "invalid_sys_id_format") /\ calls = <<>>)

\* a name that is empty or holds a character outside [a-zA-Z0-9_-]
UnsafeName(name) == name = <<>> \/ \E i \in 1..Len(name) : name[i] \notin SafeChars

\* C3: read_framework_instructions answers a domain or framework name that
\* is empty or holds a character outside [a-zA-Z0-9_-] (a trailing newline
\* too) with a validation error, and touches no file.
C3_UnsafeNameRejected ==
    (/\ last.op = "read_framework_instructions"
     /\ (UnsafeName(last.args.domain) \/ UnsafeName(last.args.framework)))
       => /\ last.ret.kind = "returned"
          /\ Has(last.ret.text, "error")
          /\ last.ret.text.error \in {"Invalid domain name", "Invalid framework name"}
          /\ fsOps = <<>>

\* C4: no tool raises: whatever the transport does the normalizer returns
\* an Outcome, and whatever the document store holds each of the six tools
\* returns a result.
C4_NoExceptionEscapes ==
    /\ \A i \in 1..Len(calls) : Has(calls[i].normalized, "success")
    /\ last # Idle => last.ret.kind = "returned"

\* C5: get_single_record reports error_type=not_found exactly when the list
\* call succeeds with no record; a list call that succeeds with a record is
\* returned as it is, and so is one that fails.
C5_NotFoundExactlyWhenEmpty ==
    last.op = "get_single_record" =>
        /\ Len(calls) = 1
        /\ last.ret.kind = "returned"
        /\ LET o == calls[1].outcome IN
           /\ (o.success /\ o.count = 0) <=> ReportsFailure(last.ret, "not_found")
           /\ (o.success /\ o.count >= 1) => last.ret.json = o
           /\ ~o.success => (last.ret.json = o /\ o.error_type # "not_found")
ErrorTypes ==
    {"empty_response", "unexpected_content", "http_error", "network_error", "timeout",
     "json_error", "unexpected_error"}

OutcomeShape(op, o) ==
    /\ Has(o, "success")
    /\ DOMAIN o \subseteq {"success", "data", "count", "error", "error_type", "status_code"}
    /\ o.success => (Has(o, "data") /\ ~Has(o, "error") /\ ~Has(o, "error_type"))
    /\ ~o.success =>
          /\ Has(o, "error") /\ Has(o, "error_type") /\ ~Has(o, "data")
          /\ o.error_type \in ErrorTypes
    /\ Has(o, "status_code") => (~o.success /\ o.error_type = "http_error")
    /\ Has(o, "count") => (o.success /\ op = "list")

\* C6: every Outcome that list, insert and modify return has data and no
\* error on success; error, a known error_type and no data on failure;
\* status_code only with http_error; count only on a successful list.
C6_OutcomeShape ==
    \A i \in 1..Len(calls) : OutcomeShape(calls[i].call.op, calls[i].outcome)

C6_Witness ==
    \E i \in 1..Len(calls) :
        /\ calls[i].call.op = "list"
        /\ calls[i].outcome.success
        /\ calls[i].outcome.count = 2

\* C7: query_records sends a sysparm_limit that is at most 100, is 100 when
\* limit >= 100 and is limit when limit < 100, and what it returns is the
\* Outcome of the list call: the clamp adds no error of its own.
C7_LimitClamped ==
    last.op = "query_records" =>
        /\ Len(calls) = 1
        /\ calls[1].call.op = "list"
        /\ LET sent == calls[1].call.params.sysparm_limit
               limit == last.args.limit
           IN  /\ sent <= 100
               /\ limit >= 100 => sent = 100
               /\ limit < 100 => sent = limit
        /\ last.ret.kind = "returned"
        /\ last.ret.json = calls[1].outcome

C7_Witness ==
    /\ last.op = "query_records"
    /\ last.args.limit = 1000
    /\ Len(calls) = 1
    /\ calls[1].call.params.sysparm_limit = 100
    /\ last.ret.json.success

\* C8: one HTTP client is made at start; it is open while the process
\* serves, and when the serving loop has ended, however it ended, the
\* client has been closed once; no call is issued on a closed client.
C8_ClientClosedOnce ==
    /\ clients = 1
    /\ closeCount <= 1
    /\ pc = "stopped" => (closeCount = 1 /\ ~clientOpen /\ calls = <<>>)
    /\ pc # "stopped" => (closeCount = 0 /\ clientOpen)
    /\ \A i \in 1..Len(calls) : calls[i].open

C8_Witness == pc = "stopped" /\ exitPath = "Exception" /\ closeCount = 1 /\ ~clientOpen

\* a name of one or more characters of [a-zA-Z0-9_-]
ValidName(name) == name # <<>> /\ \A i \in 1..Len(name) : name[i] \in SafeChars

FrameworkDocExists(store, domain, framework) ==
    /\ PathExists(store, domain, framework \o MdExt)
    /\ store.entries[domain].files[framework \o MdExt] # IsDir

StandardsReadable(store, domain) ==
    /\ PathExists(store, domain, StandardsName)
    /\ Has(store.entries[domain].files[StandardsName], "text")

PartsOf(directive, part) == { i \in 1..Len(directive) : directive[i].part = part }

DirectiveAsClaimed(store, domain, framework, target, directive) ==
    /\ \E i \in PartsOf(directive, "instructions") :
          directive[i].text = store.entries[domain].files[framework \o MdExt]
    /\ StandardsReadable(store, domain) =>
          \E i \in PartsOf(directive, "standards"), j \in PartsOf(directive, "instructions") :
              /\ i < j
              /\ directive[i].text = store.entries[domain].files[StandardsName]
    /\ ~StandardsReadable(store, domain) => PartsOf(directive, "standards") = {}
    /\ Cardinality(PartsOf(directive, "next_steps")) = 1
    /\ \A i \in PartsOf(directive, "next_steps") :
          /\ directive[i].variant = "fetch the target record" <=> target # ""
          /\ directive[i].variant = "interview the user" <=> target = ""

\* C9: for valid names whose framework document exists,
\* read_framework_instructions returns a directive that holds the
\* framework's instructions, with the standards before them when the
\* standards document exists and can be read and without them otherwise,
\* and whose next steps are "fetch the target record" exactly when target
\* is not empty and "interview the user" exactly when it is.
C9_DirectiveComposed ==
    (/\ last.op = "read_framework_instructions"
     /\ ValidName(last.args.domain)
     /\ ValidName(last.args.framework)
     /\ FrameworkDocExists(last.store, last.args.domain, last.args.framework))
       => /\ last.ret.kind = "returned"
          /\ Has(last.ret.text, "directive")
          /\ DirectiveAsClaimed(last.store, last.args.domain, last.args.framework,
                                last.args.target, last.ret.text.directive)

IsKind(o, kind) == ~o.success /\ o.error_type = kind

IsBlankText(body) == \A i \in 1..Len(body) : body[i] \in {" ", "\n"}

JsonContentType(ctype) == \E i \in 1..Len(ctype) : ctype[i] = "application/json"

\* the body holds the hibernation marker or an <html tag, in any case
HintExpected(body) ==
    \E i \in 1..Len(body) : body[i] \in {"Instance Hibernating", "<html", "<HTML"}

\* the cases of the classification up to a body that parses
ClassifiedUpToParse(t, o) ==
    /\ t.kind = "timeout" => IsKind(o, "timeout")
    /\ t.kind = "request_error" => IsKind(o, "network_error")
    /\ t.kind = "response" =>
          LET ok2xx == t.status \in 200..299 IN
          /\ ~ok2xx => (IsKind(o, "http_error") /\ Has(o, "status_code")
                        /\ o.status_code = t.status)
          /\ (ok2xx /\ IsBlankText(t.body)) => IsKind(o, "empty_response")
          /\ (ok2xx /\ ~IsBlankText(t.body) /\ ~JsonContentType(t.ctype)) =>
                (IsKind(o, "unexpected_content") /\ o.error.hint = HintExpected(t.body))
          /\ (ok2xx /\ ~IsBlankText(t.body) /\ JsonContentType(t.ctype) /\ NotJson(t.body)) =>
                IsKind(o, "json_error")

ParsesAsJson(t) ==
    /\ t.kind = "response"
    /\ t.status \in 200..299
    /\ ~IsBlankText(t.body)
    /\ JsonContentType(t.ctype)
    /\ JsonLoads(t.body).ok

\* success, with the 'result' member when the value has one, else the value
SuccessUnwrapped(v, o) ==
    /\ o.success
    /\ o.data = IF v.t = "dict" /\ Has(v.fields, "result") THEN v.fields["result"] ELSE v

\* C10 as stated: ... and a 2xx answer with a JSON content-type whose body
\* parses to any JSON value is a success, with data the 'result' member if
\* there is one, else the whole value.
C10_ClassifiedAnyValue ==
    \A i \in 1..Len(calls) :
        /\ ClassifiedUpToParse(calls[i].t, calls[i].normalized)
        /\ ParsesAsJson(calls[i].t) =>
              SuccessUnwrapped(JsonLoads(calls[i].t.body).val, calls[i].normalized)

\* C10, amended: the normalizer classifies a timeout as timeout; another
\* transport failure as network_error; a non-2xx status as http_error with
\* status_code, whatever the body; 2xx with a blank body as empty_response;
\* 2xx with a non-blank body and a content-type without application/json as
\* unexpected_content, the hint added exactly when the body holds
\* 'Instance Hibernating' or '<html' in any case; 2xx, JSON content-type and
\* a body that does not parse as json_error; 2xx, JSON content-type and a
\* body that parses to a JSON object as success, with data the 'result'
\* member if there is one, else the object; and a body that parses to a
\* value that is no object (an array, a number, null) as unexpected_error.
C10_ClassifiedObject ==
    \A i \in 1..Len(calls) :
        /\ ClassifiedUpToParse(calls[i].t, calls[i].normalized)
        /\ ParsesAsJson(calls[i].t) =>
              LET v == JsonLoads(calls[i].t.body).val IN
              /\ v.t = "dict" => SuccessUnwrapped(v, calls[i].normalized)
              /\ v.t # "dict" => IsKind(calls[i].normalized, "unexpected_error")

C10_Witness ==
    \E i \in 1..Len(calls) :
        /\ ParsesAsJson(calls[i].t)
        /\ JsonLoads(calls[i].t.body).val.t = "list"
        /\ IsKind(calls[i].normalized, "unexpected_error")

\* C11: when query_table succeeds, data is a sequence and count is its
\* length: a payload that is a sequence is returned as it is (count 0 for
\* the empty one), a payload that is one object is wrapped into a sequence
\* of one element with count 1; when the call fails, query_table returns the
\* normalizer's Outcome as it is, without count.
C11_ListCoerced ==
    \A i \in 1..Len(calls) :
        calls[i].call.op = "list" =>
            LET n == calls[i].normalized
                o == calls[i].outcome
            IN  /\ o.success <=> n.success
                /\ n.success =>
                      /\ o.data.t = "list"
                      /\ Has(o, "count")
                      /\ o.count = Len(o.data.items)
                      /\ n.data.t = "list" => o.data = n.data
                      /\ n.data.t # "list" => (o.data.items = <<n.data>> /\ o.count = 1)
                /\ ~n.success => (o = n /\ ~Has(o, "count"))

C11_Witness ==
    \E i \in 1..Len(calls) :
        /\ calls[i].call.op = "list"
        /\ calls[i].normalized.success
        /\ calls[i].normalized.data.t = "dict"
        /\ calls[i].outcome.data.items = <<calls[i].normalized.data>>
        /\ calls[i].outcome.count = 1
====
